---------------------------- MODULE Spec2Model ----------------------------
(***************************************************************************)
(* Vendor performance metrics of vmf/models.py.                            *)
(*                                                                         *)
(* The database holds Vendor rows (keyed here by their unique vendor_code) *)
(* PurchaseOrder rows (keyed by their autoincrement pk = the index in the  *)
(* sequence orders) and HistoricalPerformance rows.  PurchaseOrder.save    *)
(* stores the order, runs the four derivations on the in-memory Vendor     *)
(* instance self.vendor and saves that instance.                           *)
(*                                                                         *)
(* Numbers: the metric fields are Python floats.  They are modelled as     *)
(* exact rationals <<n, d>> in lowest terms with d > 0; the rounding of    *)
(* IEEE doubles is not modelled.  Dates are whole hours.  An optional      *)
(* field is <<>> (None) or <<x>>.  The fields order_date and items of      *)
(* PurchaseOrder are read by no code and are left out.                     *)
(***************************************************************************)
EXTENDS Integers, Sequences, FiniteSets, TLC

VARIABLES
    now,         \* timezone.now(), in hours
    vendors,     \* table Vendor: vendor_code -> row
    orders,      \* table PurchaseOrder: sequence of rows, pk = index
    history,     \* table HistoricalPerformance: sequence of rows
    vobj,        \* an in-memory Vendor instance held by a caller: <<>> or <<row>>
    wr,          \* concurrent writers: position in PurchaseOrder.save and locals
    lastCommit,  \* history variable: per vendor, the writer whose vendor.save() ran last
    lastOp       \* history variable: the last operation, whether time has passed since,
                 \* and whether it was a save that repeated the vendor's recomputation
                 \* on an unchanged table of orders

vars == <<now, vendors, orders, history, vobj, wr, lastCommit, lastOp>>

-----------------------------------------------------------------------------
(* Bounds of the model *)

MaxOrders == 2

MaxNow == 2

MaxSnapshots == 2

(* Program constant: seconds per hour *)
SecondsPerHour == 3600

-----------------------------------------------------------------------------
(* Input sets *)

VendorCodes == {"AAA111", "BBB222"}

Writers == {"w1", "w2"}

None == <<>>

Some(x) == <<x>>

(* Name and address a caller gives a vendor *)
Idents == {<<"Acme", "1 Main St">>, <<"Apex", "2 High St">>}

ContactOf(v) == IF v = "AAA111" THEN "a@vendors" ELSE "b@vendors"

mkPO(st, dd, qr, ack, q) ==
    [status |-> st, delivery_date |-> dd, quality_rating |-> qr,
     issue_date |-> 1, acknowledgment_date |-> ack, quantity |-> q]

(* Field values of a PurchaseOrder instance that pass the validators of its
   fields.  No validator relates acknowledgment_date to issue_date. *)
OrderInputs ==
    { mkPO("completed", 1, None,    None,    1),
      mkPO("completed", 2, Some(4), Some(2), 1),
      mkPO("pending",   1, None,    Some(0), 1) }

(* save() runs no validator: an instance that was never validated may carry
   a rating above 5 or a quantity below 1 *)
RawInputs ==
    OrderInputs \cup
    { mkPO("completed", 1, Some(7), None, 1),
      mkPO("pending",   1, None,    None, 0) }

(* The inputs of the specifications about snapshots, the frame of save()
   and interleaved writes *)
SmallInputs ==
    { mkPO("completed", 1, None,    None,    1),
      mkPO("completed", 2, Some(4), Some(2), 1) }

-----------------------------------------------------------------------------
(* Exact arithmetic on the float fields *)

Abs(n) == IF n < 0 THEN -n ELSE n

RECURSIVE GCD(_, _)
GCD(a, b) == IF b = 0 THEN a ELSE GCD(b, a % b)

(* n / d for integers n and d > 0 *)
Frac(n, d) == LET g == GCD(Abs(n), d) IN <<n \div g, d \div g>>

Zero == Frac(0, 1)

RatAdd(a, b) == Frac(a[1] * b[2] + b[1] * a[2], a[2] * b[2])

RatMulInt(a, k) == Frac(a[1] * k, a[2])

RatDivInt(a, k) == Frac(a[1], a[2] * k)

RatLe(a, b) == a[1] * b[2] <= b[1] * a[2]

RECURSIVE RatSum(_)
RatSum(s) == IF s = <<>> THEN Zero ELSE RatAdd(Head(s), RatSum(Tail(s)))

(* The values f[i], i in the set S of integers, in increasing order of i *)
RECURSIVE ListOf(_, _)
ListOf(S, f) ==
    IF S = {} THEN <<>>
    ELSE LET i == CHOOSE x \in S : \A y \in S : x <= y
         IN <<f[i]>> \o ListOf(S \ {i}, f)

-----------------------------------------------------------------------------
(* Vendor: fields, validators and the four derivations *)

(* A new Vendor row: the metric fields take their default, 0 *)
NewVendor(v, name, addr) ==
    [vendor_code |-> v, name |-> name, contact_details |-> ContactOf(v),
     address |-> addr,
     on_time_delivery_rate |-> Zero, quality_rating_avg |-> Zero,
     average_response_time |-> Zero, fulfillment_rate |-> Zero]

Metrics(row) ==
    <<row.on_time_delivery_rate, row.quality_rating_avg,
      row.average_response_time, row.fulfillment_rate>>

Identity(row) ==
    <<row.name, row.contact_details, row.address, row.vendor_code>>

(* The validators declared on the four metric fields *)
VendorFieldsValid(row) ==
    /\ RatLe(Zero, row.on_time_delivery_rate)
    /\ RatLe(row.on_time_delivery_rate, Frac(100, 1))
    /\ RatLe(Zero, row.quality_rating_avg)
    /\ RatLe(row.quality_rating_avg, Frac(5, 1))
    /\ RatLe(Zero, row.average_response_time)
    /\ RatLe(Zero, row.fulfillment_rate)
    /\ RatLe(row.fulfillment_rate, Frac(100, 1))

(* Vendor.clean: TRUE when it raises no ValidationError.  Model.save() does
   not call clean(), and no code of models.py does. *)
clean(self) == ~ (~ RatLe(self.quality_rating_avg, Frac(5, 1)))

(* The validators declared on the fields of PurchaseOrder *)
PurchaseOrderFieldsValid(o) ==
    /\ o.quantity >= 1
    /\ o.quality_rating # None =>
          /\ 0 <= o.quality_rating[1]
          /\ o.quality_rating[1] <= 5

(* self.purchaseorder_set: the pks of the orders whose vendor is self *)
purchaseorder_set(self, os) ==
    {i \in DOMAIN os : os[i].vendor = self.vendor_code}

(* Variant: delivery_date__lt in place of delivery_date__lte *)
calculate_on_time_delivery_rate_StrictlyBefore(self, os, t) ==
    LET completed_pos == {i \in purchaseorder_set(self, os) : os[i].status = "completed"}
        on_time_delivered_pos == {i \in completed_pos : os[i].delivery_date < t}
    IN  IF completed_pos # {}
        THEN [self EXCEPT !.on_time_delivery_rate =
                 RatMulInt(Frac(Cardinality(on_time_delivered_pos),
                                Cardinality(completed_pos)), 100)]
        ELSE [self EXCEPT !.on_time_delivery_rate = Zero]

(* Vendor.calculate_on_time_delivery_rate *)
calculate_on_time_delivery_rate(self, os, t) ==
    LET completed_pos == {i \in purchaseorder_set(self, os) : os[i].status = "completed"}
        on_time_delivered_pos == {i \in completed_pos : os[i].delivery_date <= t}
    IN  IF completed_pos # {}
        THEN [self EXCEPT !.on_time_delivery_rate =
                 RatMulInt(Frac(Cardinality(on_time_delivered_pos),
                                Cardinality(completed_pos)), 100)]
        ELSE [self EXCEPT !.on_time_delivery_rate = Zero]

(* Vendor.update_quality_rating_avg: Avg over the completed, rated orders *)
update_quality_rating_avg(self, os) ==
    LET completed_pos == {i \in purchaseorder_set(self, os) :
                             /\ os[i].status = "completed"
                             /\ os[i].quality_rating # None}
        ratings == ListOf(completed_pos, [i \in completed_pos |-> Frac(os[i].quality_rating[1], 1)])
    IN  IF completed_pos # {}
        THEN [self EXCEPT !.quality_rating_avg =
                 RatDivInt(RatSum(ratings), Cardinality(completed_pos))]
        ELSE [self EXCEPT !.quality_rating_avg = Zero]

(* Variant: the new mean is averaged with the value the instance holds *)
calculate_average_response_time_Running(self, os) ==
    LET acknowledged_pos == {i \in purchaseorder_set(self, os) :
                                os[i].acknowledgment_date # None}
        response_times ==
            ListOf(acknowledged_pos,
                   [i \in acknowledged_pos |->
                       Frac((os[i].acknowledgment_date[1] - os[i].issue_date) * SecondsPerHour,
                            SecondsPerHour)])
    IN  IF acknowledged_pos # {}
        THEN [self EXCEPT !.average_response_time =
                 RatDivInt(RatAdd(self.average_response_time,
                                  RatDivInt(RatSum(response_times), Len(response_times))), 2)]
        ELSE [self EXCEPT !.average_response_time = Zero]

(* Vendor.calculate_average_response_time: hours from issue to acknowledgment *)
calculate_average_response_time(self, os) ==
    LET acknowledged_pos == {i \in purchaseorder_set(self, os) :
                                os[i].acknowledgment_date # None}
        response_times ==
            ListOf(acknowledged_pos,
                   [i \in acknowledged_pos |->
                       Frac((os[i].acknowledgment_date[1] - os[i].issue_date) * SecondsPerHour,
                            SecondsPerHour)])
    IN  IF acknowledged_pos # {}
        THEN [self EXCEPT !.average_response_time =
                 RatDivInt(RatSum(response_times), Len(response_times))]
        ELSE [self EXCEPT !.average_response_time = Zero]

(* Variant: the filter quality_rating__isnull=True is missing *)
calculate_fulfillment_rate_AllCompleted(self, os) ==
    LET all_pos == purchaseorder_set(self, os)
        successful_pos == {i \in all_pos : os[i].status = "completed"}
    IN  IF all_pos # {}
        THEN [self EXCEPT !.fulfillment_rate =
                 RatMulInt(Frac(Cardinality(successful_pos), Cardinality(all_pos)), 100)]
        ELSE [self EXCEPT !.fulfillment_rate = Zero]

(* Vendor.calculate_fulfillment_rate *)
calculate_fulfillment_rate(self, os) ==
    LET all_pos == purchaseorder_set(self, os)
        successful_pos == {i \in all_pos : /\ os[i].status = "completed"
                                           /\ os[i].quality_rating = None}
    IN  IF all_pos # {}
        THEN [self EXCEPT !.fulfillment_rate =
                 RatMulInt(Frac(Cardinality(successful_pos), Cardinality(all_pos)), 100)]
        ELSE [self EXCEPT !.fulfillment_rate = Zero]

-----------------------------------------------------------------------------
(* PurchaseOrder.save *)

(* Another row already carries the order number: super().save() raises
   IntegrityError (po_number is unique) *)
DuplicateNumber(os, pk, po) ==
    \E i \in DOMAIN os : i # pk /\ os[i].po_number = po

(* super().save(): INSERT a new row (pk = 0) or UPDATE the row pk *)
SuperSave(os, pk, row) ==
    IF pk = 0 THEN Append(os, row) ELSE [os EXCEPT ![pk] = row]

(* Variant: the call of calculate_fulfillment_rate is missing *)
Recompute_SkipFulfillment(inst, os, t) ==
    calculate_average_response_time(
        update_quality_rating_avg(
            calculate_on_time_delivery_rate(inst, os, t), os), os)

(* The four calls of save() on self.vendor, in their order *)
Recompute(inst, os, t) ==
    calculate_fulfillment_rate(
        calculate_average_response_time(
            update_quality_rating_avg(
                calculate_on_time_delivery_rate(inst, os, t), os), os), os)

(* Variant: the two rate columns are not among the columns updated *)
VendorSave_KeepStoredRates(vs, inst) ==
    [vs EXCEPT ![inst.vendor_code] =
        [inst EXCEPT !.on_time_delivery_rate = vs[inst.vendor_code].on_time_delivery_rate,
                     !.fulfillment_rate = vs[inst.vendor_code].fulfillment_rate]]

(* self.vendor.save(): UPDATE every column of the row from the instance *)
VendorSave(vs, inst) == [vs EXCEPT ![inst.vendor_code] = inst]

(* The order numbers a caller gives: an unused one (for a stored order, its
   own), or the number of the first other row *)
PoChoices(pk) ==
    {IF pk = 0 THEN Len(orders) + 1 ELSE orders[pk].po_number}
        \cup {orders[i].po_number :
                 i \in {j \in DOMAIN orders : \A k \in DOMAIN orders \ {pk} : j <= k}}

(* save() of an instance with pk (0: not stored yet), fields f, vendor v and
   number po.  cached: self.vendor is the instance vobj loaded earlier;
   otherwise self.vendor is fetched from the table at its first use, after
   super().save() *)
SaveEffect(pk, f, v, po, cached) ==
    LET row == [vendor |-> v, po_number |-> po, status |-> f.status,
                delivery_date |-> f.delivery_date,
                quality_rating |-> f.quality_rating,
                issue_date |-> f.issue_date,
                acknowledgment_date |-> f.acknowledgment_date,
                quantity |-> f.quantity]
    IN  /\ v \in DOMAIN vendors
        /\ pk = 0 => Len(orders) < MaxOrders
        /\ cached => (vobj # None /\ vobj[1].vendor_code = v)
        /\ IF DuplicateNumber(orders, pk, po)
           THEN /\ lastOp' = [op |-> "rejected", vendor |-> "", again |-> FALSE]
                /\ UNCHANGED <<orders, vendors, vobj>>
           ELSE LET stored == SuperSave(orders, pk, row)
                    loaded == IF cached THEN vobj[1] ELSE vendors[v]
                    inst   == Recompute(loaded, stored, now)
                IN  /\ orders' = stored
                    /\ vendors' = VendorSave(vendors, inst)
                    /\ vobj' = IF cached THEN Some(inst) ELSE vobj
                    /\ lastOp' = [op |-> "save", vendor |-> v,
                                   again |-> /\ lastOp.op \in {"save", "save, then time passed"}
                                             /\ lastOp.vendor = v
                                             /\ stored = orders]

(* Variant: the save also refreshes the snapshots of the vendor *)
SaveRewritingHistory(pk, f, v, po, cached) ==
    /\ SaveEffect(pk, f, v, po, cached)
    /\ history' = [i \in DOMAIN history |->
                     IF history[i].vendor = v /\ v \in DOMAIN vendors'
                     THEN [history[i] EXCEPT
                             !.on_time_delivery_rate = vendors'[v].on_time_delivery_rate,
                             !.quality_rating_avg = vendors'[v].quality_rating_avg,
                             !.average_response_time = vendors'[v].average_response_time,
                             !.fulfillment_rate = vendors'[v].fulfillment_rate]
                     ELSE history[i]]
    /\ UNCHANGED <<now, wr, lastCommit>>

(* PurchaseOrder.save as one step: it writes the order and vendor tables only *)
Save(pk, f, v, po, cached) ==
    /\ SaveEffect(pk, f, v, po, cached)
    /\ UNCHANGED <<now, history, wr, lastCommit>>

-----------------------------------------------------------------------------
(* The other operations *)

Other == [op |-> "other", vendor |-> "", again |-> FALSE]

(* Vendor(...).save() of a new vendor *)
CreateVendor(v, name, addr) ==
    /\ v \notin DOMAIN vendors
    /\ vendors' = [c \in DOMAIN vendors \cup {v} |->
                      IF c = v THEN NewVendor(v, name, addr) ELSE vendors[c]]
    /\ lastOp' = Other
    /\ UNCHANGED <<now, orders, history, vobj, wr, lastCommit>>

(* A caller loads a vendor, changes its name and address and saves it *)
VendorEdit(v, name, addr) ==
    /\ v \in DOMAIN vendors
    /\ vendors' = [vendors EXCEPT ![v] = [@ EXCEPT !.name = name, !.address = addr]]
    /\ lastOp' = Other
    /\ UNCHANGED <<now, orders, history, vobj, wr, lastCommit>>

(* An order instance loads its in-memory vendor instance *)
LoadVendor(v) ==
    /\ v \in DOMAIN vendors
    /\ vobj' = Some(vendors[v])
    /\ lastOp' = Other
    /\ UNCHANGED <<now, vendors, orders, history, wr, lastCommit>>

(* capture_snapshot(vendor, timestamp): a HistoricalPerformance row that
   copies the vendor's current metric fields *)
CaptureSnapshot(v) ==
    /\ v \in DOMAIN vendors
    /\ Len(history) < MaxSnapshots
    /\ history' = Append(history,
          [vendor |-> v, date |-> now,
           on_time_delivery_rate |-> vendors[v].on_time_delivery_rate,
           quality_rating_avg |-> vendors[v].quality_rating_avg,
           average_response_time |-> vendors[v].average_response_time,
           fulfillment_rate |-> vendors[v].fulfillment_rate])
    /\ lastOp' = Other
    /\ UNCHANGED <<now, vendors, orders, vobj, wr, lastCommit>>

(* Time passes *)
Tick ==
    /\ now < MaxNow
    /\ now' = now + 1
    /\ lastOp' = [lastOp EXCEPT !.op = IF @ = "save" THEN "save, then time passed" ELSE @,
                                !.again = FALSE]
    /\ UNCHANGED <<vendors, orders, history, vobj, wr, lastCommit>>

-----------------------------------------------------------------------------
(* PurchaseOrder.save run by concurrent writers, one statement at a time.
   Each writer runs save() once. *)

(* super().save() *)
WStore(w, pk, f, v, po) ==
    LET row == [vendor |-> v, po_number |-> po, status |-> f.status,
                delivery_date |-> f.delivery_date,
                quality_rating |-> f.quality_rating,
                issue_date |-> f.issue_date,
                acknowledgment_date |-> f.acknowledgment_date,
                quantity |-> f.quantity]
    IN  /\ wr[w].pc = "idle"
        /\ v \in DOMAIN vendors
        /\ pk = 0 => Len(orders) < MaxOrders
        /\ IF DuplicateNumber(orders, pk, po)
           THEN /\ wr' = [wr EXCEPT ![w].pc = "failed"]
                /\ UNCHANGED orders
           ELSE /\ orders' = SuperSave(orders, pk, row)
                /\ wr' = [wr EXCEPT ![w].pc = "stored", ![w].vendor = v]
        /\ UNCHANGED <<now, vendors, history, vobj, lastCommit, lastOp>>

(* self.vendor.calculate_on_time_delivery_rate(): the first use of
   self.vendor fetches the vendor row *)
WOnTime(w) ==
    /\ wr[w].pc = "stored"
    /\ wr' = [wr EXCEPT ![w].pc = "on_time",
                        ![w].inst = Some(calculate_on_time_delivery_rate(
                                            vendors[wr[w].vendor], orders, now))]
    /\ UNCHANGED <<now, vendors, orders, history, vobj, lastCommit, lastOp>>

(* self.vendor.update_quality_rating_avg() *)
WQuality(w) ==
    /\ wr[w].pc = "on_time"
    /\ wr' = [wr EXCEPT ![w].pc = "quality",
                        ![w].inst = Some(update_quality_rating_avg(wr[w].inst[1], orders))]
    /\ UNCHANGED <<now, vendors, orders, history, vobj, lastCommit, lastOp>>

(* self.vendor.calculate_average_response_time() *)
WResponse(w) ==
    /\ wr[w].pc = "quality"
    /\ wr' = [wr EXCEPT ![w].pc = "response",
                        ![w].inst = Some(calculate_average_response_time(wr[w].inst[1], orders))]
    /\ UNCHANGED <<now, vendors, orders, history, vobj, lastCommit, lastOp>>

(* self.vendor.calculate_fulfillment_rate() *)
WFulfillment(w) ==
    /\ wr[w].pc = "response"
    /\ wr' = [wr EXCEPT ![w].pc = "fulfillment",
                        ![w].inst = Some(calculate_fulfillment_rate(wr[w].inst[1], orders))]
    /\ UNCHANGED <<now, vendors, orders, history, vobj, lastCommit, lastOp>>

(* self.vendor.save() *)
WVendorSave(w) ==
    /\ wr[w].pc = "fulfillment"
    /\ vendors' = VendorSave(vendors, wr[w].inst[1])
    /\ lastCommit' = [lastCommit EXCEPT ![wr[w].vendor] = w]
    /\ wr' = [wr EXCEPT ![w].pc = "done"]
    /\ UNCHANGED <<now, orders, history, vobj, lastOp>>

-----------------------------------------------------------------------------
(* Specifications *)

Init ==
    /\ now = 1
    /\ vendors = [c \in {} |-> 0]
    /\ orders = <<>>
    /\ history = <<>>
    /\ vobj = None
    /\ wr = [w \in Writers |-> [pc |-> "idle", vendor |-> "", inst |-> None]]
    /\ lastCommit = [v \in VendorCodes |-> ""]
    /\ lastOp = Other

CreateAny ==
    \E v \in VendorCodes : CreateVendor(v, "Acme", "1 Main St")

(* Sequential writes of validated instances: each save() is one step *)
Next ==
    \/ CreateAny
    \/ \E pk \in 0..Len(orders), f \in OrderInputs, v \in VendorCodes :
          \E po \in PoChoices(pk) : Save(pk, f, v, po, FALSE)
    \/ Tick

Spec == Init /\ [][Next]_vars

(* Sequential writes of instances that were never validated *)
NextRaw ==
    \/ CreateAny
    \/ \E pk \in 0..Len(orders), f \in RawInputs, v \in VendorCodes :
          \E po \in PoChoices(pk) : Save(pk, f, v, po, FALSE)
    \/ Tick

SpecRaw == Init /\ [][NextRaw]_vars

(* Sequential writes and snapshots *)
NextSnap ==
    \/ CreateAny
    \/ \E pk \in 0..Len(orders), f \in SmallInputs, v \in {"AAA111"} :
          \E po \in PoChoices(pk) : Save(pk, f, v, po, FALSE)
    \/ \E v \in {"AAA111"} : CaptureSnapshot(v)

SpecSnap == Init /\ [][NextSnap]_vars

(* Sequential writes through an order whose vendor instance was loaded
   earlier, while callers edit the vendors *)
NextFrame ==
    \/ CreateAny
    \/ \E v \in VendorCodes, id \in Idents : VendorEdit(v, id[1], id[2])
    \/ \E v \in VendorCodes : LoadVendor(v)
    \/ \E pk \in 0..Len(orders), f \in SmallInputs, v \in VendorCodes, cached \in BOOLEAN :
          \E po \in PoChoices(pk) : Save(pk, f, v, po, cached)

SpecFrame == Init /\ [][NextFrame]_vars

(* Two writers whose save() calls interleave *)
NextRace ==
    \/ CreateAny
    \/ \E w \in Writers, pk \in 0..Len(orders), f \in SmallInputs, v \in VendorCodes :
          \E po \in PoChoices(pk) : WStore(w, pk, f, v, po)
    \/ \E w \in Writers : WOnTime(w)
    \/ \E w \in Writers : WQuality(w)
    \/ \E w \in Writers : WResponse(w)
    \/ \E w \in Writers : WFulfillment(w)
    \/ \E w \in Writers : WVendorSave(w)

SpecRace == Init /\ [][NextRace]_vars

-----------------------------------------------------------------------------
(* Properties *)

ZeroMetrics == <<Zero, Zero, Zero, Zero>>

SnapMetrics(h) ==
    <<h.on_time_delivery_rate, h.quality_rating_avg,
      h.average_response_time, h.fulfillment_rate>>

(* C1: when a save() of an order of vendor V has returned, each of V's four
   stored metric fields equals its derivation applied to the stored orders,
   the order just written included. *)
WriteRefreshesVendor ==
    lastOp.op = "save" =>
        LET row == vendors[lastOp.vendor]
        IN  /\ row.on_time_delivery_rate =
                  calculate_on_time_delivery_rate(row, orders, now).on_time_delivery_rate
            /\ row.quality_rating_avg =
                  update_quality_rating_avg(row, orders).quality_rating_avg
            /\ row.average_response_time =
                  calculate_average_response_time(row, orders).average_response_time
            /\ row.fulfillment_rate =
                  calculate_fulfillment_rate(row, orders).fulfillment_rate

(* C1 witness: a save has just returned on a vendor that owns two orders and
   whose metrics are not all zero. *)
WriteRefreshesVendorWitness ==
    /\ lastOp.op = "save"
    /\ Cardinality(purchaseorder_set(vendors[lastOp.vendor], orders)) >= 2
    /\ Metrics(vendors[lastOp.vendor]) # ZeroMetrics

(* C2, as claimed: a vendor that owns no purchase order has all four metrics
   equal to 0. *)
NoOrdersZeroMetrics ==
    \A v \in DOMAIN vendors :
        purchaseorder_set(vendors[v], orders) = {} => Metrics(vendors[v]) = ZeroMetrics

(* C3, as claimed: after the recomputation of a save, the vendor's four
   metric fields are within the ranges their validators declare. *)
MetricsInRange ==
    lastOp.op = "save" => VendorFieldsValid(vendors[lastOp.vendor])

(* C4: calculate_fulfillment_rate yields 100 * K / N, with N the number of
   the vendor's orders and K the number of them that are completed and carry
   no rating, and 0 when N = 0; after a save the stored field has that value. *)
FulfillmentRateFormula ==
    \A v \in DOMAIN vendors :
        LET N == Cardinality({i \in DOMAIN orders : orders[i].vendor = v})
            K == Cardinality({i \in DOMAIN orders :
                                 /\ orders[i].vendor = v
                                 /\ orders[i].status = "completed"
                                 /\ orders[i].quality_rating = None})
            expected == IF N = 0 THEN Zero ELSE Frac(100 * K, N)
        IN  /\ calculate_fulfillment_rate(vendors[v], orders).fulfillment_rate = expected
            /\ (lastOp.op = "save" /\ lastOp.vendor = v) =>
                   vendors[v].fulfillment_rate = expected

(* C4 witness: a save has returned on a vendor with a completed rated order
   and a completed unrated one; its fulfillment_rate is 50. *)
FulfillmentRateWitness ==
    /\ lastOp.op = "save"
    /\ \E i, j \in purchaseorder_set(vendors[lastOp.vendor], orders) :
          /\ orders[i].status = "completed" /\ orders[i].quality_rating # None
          /\ orders[j].status = "completed" /\ orders[j].quality_rating = None
    /\ vendors[lastOp.vendor].fulfillment_rate = Frac(50, 1)

(* C5: calculate_on_time_delivery_rate yields 100 * K / N, with N the number
   of the vendor's completed orders and K the number of them whose
   delivery_date is not after now, and 0 when N = 0; after a save the stored
   field has that value. *)
OnTimeRateFormula ==
    \A v \in DOMAIN vendors :
        LET N == Cardinality({i \in DOMAIN orders :
                                 orders[i].vendor = v /\ orders[i].status = "completed"})
            K == Cardinality({i \in DOMAIN orders :
                                 /\ orders[i].vendor = v
                                 /\ orders[i].status = "completed"
                                 /\ orders[i].delivery_date <= now})
            expected == IF N = 0 THEN Zero ELSE Frac(100 * K, N)
        IN  /\ calculate_on_time_delivery_rate(vendors[v], orders, now).on_time_delivery_rate
                  = expected
            /\ (lastOp.op = "save" /\ lastOp.vendor = v) =>
                   vendors[v].on_time_delivery_rate = expected

(* C5 witness: a save has returned on a vendor with one completed order
   delivered by now, at the very instant now, and one order that is not
   completed; its on_time_delivery_rate is 100. *)
OnTimeRateWitness ==
    /\ lastOp.op = "save"
    /\ \E i, j \in purchaseorder_set(vendors[lastOp.vendor], orders) :
          /\ orders[i].status = "completed" /\ orders[i].delivery_date = now
          /\ orders[j].status # "completed"
    /\ vendors[lastOp.vendor].on_time_delivery_rate = Frac(100, 1)

(* C6: a step never changes or removes a stored snapshot; a new snapshot
   copies the vendor's current metric fields, so it differs from every
   earlier snapshot of that vendor whose values the vendor no longer has. *)
SnapshotsFrozen ==
    [][ /\ Len(history') >= Len(history)
        /\ \A i \in DOMAIN history : history'[i] = history[i]
        /\ Len(history') > Len(history) =>
              LET new == history'[Len(history')]
              IN  /\ SnapMetrics(new) = Metrics(vendors[new.vendor])
                  /\ \A i \in DOMAIN history :
                        (/\ history[i].vendor = new.vendor
                         /\ SnapMetrics(history[i]) # Metrics(vendors[new.vendor]))
                            => SnapMetrics(history'[i]) # SnapMetrics(new) ]_vars

(* C6 witness: two snapshots of one vendor, taken before and after a write
   that changed its metrics, and a later write that changed them again. *)
SnapshotsFrozenWitness ==
    /\ Len(history) = 2
    /\ history[1].vendor = history[2].vendor
    /\ SnapMetrics(history[1]) # SnapMetrics(history[2])
    /\ SnapMetrics(history[1]) # Metrics(vendors[history[1].vendor])
    /\ SnapMetrics(history[2]) # Metrics(vendors[history[2].vendor])

(* The step is a save that recomputes the vendor of the preceding save while
   the table of orders stays as it is *)
RecomputedAgain ==
    /\ lastOp.op \in {"save", "save, then time passed"}
    /\ lastOp'.op = "save"
    /\ lastOp'.vendor = lastOp.vendor
    /\ orders' = orders

(* C7, as claimed: a second recomputation against an unchanged order set
   yields the same four values, also when now has advanced in between. *)
RecomputeTwiceSame ==
    [][ RecomputedAgain =>
            Metrics(vendors'[lastOp.vendor]) = Metrics(vendors[lastOp.vendor]) ]_vars

(* C7, amended: a second recomputation against an unchanged order set yields
   the same quality_rating_avg, average_response_time and fulfillment_rate,
   and the same on_time_delivery_rate when now has not advanced in between. *)
RecomputeTwiceSameInstant ==
    [][ RecomputedAgain =>
            LET old == vendors[lastOp.vendor]
                new == vendors'[lastOp.vendor]
            IN  /\ new.quality_rating_avg = old.quality_rating_avg
                /\ new.average_response_time = old.average_response_time
                /\ new.fulfillment_rate = old.fulfillment_rate
                /\ lastOp.op = "save" =>
                      new.on_time_delivery_rate = old.on_time_delivery_rate ]_vars

(* C7 witness: a save has repeated the recomputation of a vendor whose
   metrics are not all zero, on an unchanged table of orders. *)
RecomputeTwiceWitness ==
    /\ lastOp.op = "save"
    /\ lastOp.again
    /\ Metrics(vendors[lastOp.vendor]) # ZeroMetrics

(* C8, as claimed: a record that violates a static constraint (the range of
   quantity or quality_rating, the uniqueness of the order number) is not
   stored. *)
StoredOrdersSatisfyConstraints ==
    \A i \in DOMAIN orders :
        /\ PurchaseOrderFieldsValid(orders[i])
        /\ \A j \in DOMAIN orders : j # i => orders[j].po_number # orders[i].po_number

(* C9: once both interleaved writes are done, the stored metrics of a vendor
   are those computed by the writer whose vendor.save() ran last. *)
LastCommitWins ==
    (\A w \in Writers : wr[w].pc = "done") =>
        \A v \in DOMAIN vendors :
            lastCommit[v] # "" =>
                Metrics(vendors[v]) = Metrics(wr[lastCommit[v]].inst[1])

(* C9 witness: both writes to one vendor are done, and the stored metrics
   differ from a recomputation over the final orders. *)
LastCommitWinsWitness ==
    /\ \A w \in Writers : wr[w].pc = "done"
    /\ \E v \in DOMAIN vendors :
          /\ \A w \in Writers : wr[w].vendor = v
          /\ Metrics(vendors[v]) # Metrics(Recompute(vendors[v], orders, now))

(* C10, as claimed: a save leaves the identity fields of every vendor, and
   every field of the vendors other than the order's, as they are stored. *)
SaveTouchesOnlyMetrics ==
    [][ lastOp'.op = "save" =>
            \A v \in DOMAIN vendors :
                /\ Identity(vendors'[v]) = Identity(vendors[v])
                /\ v # lastOp'.vendor => vendors'[v] = vendors[v] ]_vars

=============================================================================
